---------------------------- MODULE Spec2Model ----------------------------
(***************************************************************************)
(* Model of ctaylor-wpc/wpcdelbravo.                                       *)
(*                                                                         *)
(*   src/delivery_config.py  the delivery rate table and the price         *)
(*                           functions (PriceSpec)                         *)
(*   src/app.py              the landscaping quote wizard (Spec)           *)
(*                                                                         *)
(* Arithmetic.  The program computes in binary floating point; the model   *)
(* computes the same expressions exactly, in fixed point:                  *)
(*   mileage  in tenths of a mile        (15.2 mi  = 152)                   *)
(*   rates, minimums, setup fees, unit prices in cents ($2.95 = 295)       *)
(*   a price of delivery_config.py in mills, 1/1000 dollar ($45 = 45000):  *)
(*   cents per mile times tenths of a mile is mills.                       *)
(***************************************************************************)
EXTENDS Integers, Sequences, FiniteSets, TLC

VARIABLES
    request,        \* the call made to delivery_config.py, or NoRequest
    result,         \* what that call returned, or NoResult
    session_state,  \* st.session_state of the wizard's browser session
    screen,         \* the page the last run of the script left
    last_lookup,    \* the answer met by the latest Distance Lookup call
    appended        \* the rows appended to the dashboard sheet for the
                    \* installation in progress

price_vars == <<request, result>>
wizard_vars == <<session_state, screen, last_lookup, appended>>
vars == <<request, result, session_state, screen, last_lookup, appended>>

-----------------------------------------------------------------------------
(* Bounds of the model *)

\* Largest round-trip mileage, in tenths of a mile, a price function is called with.
MaxTenths == 810

\* Largest magnitude of a negative round-trip mileage, in tenths of a mile.
MaxNegTenths == 12

\* Largest one-way distance, in tenths of a mile, the Distance Lookup answers.
MaxOneWayTenths == 205

-----------------------------------------------------------------------------
(* Helpers *)

Max(a, b) == IF a >= b THEN a ELSE b

\* cents -> mills
Mills(cents) == cents * 10

-----------------------------------------------------------------------------
(* delivery_config.py: the rate table *)

SingleConfig ==
    [frankfort_minimum |-> 4500, lexington_minimum |-> 5000,
     rate_per_mile |-> 200, allows_to_the_hole |-> TRUE,
     pricing_type |-> "standard"]

DoubleConfig ==
    [frankfort_minimum |-> 6000, lexington_minimum |-> 7000,
     rate_per_mile |-> 295, allows_to_the_hole |-> TRUE,
     pricing_type |-> "standard"]

BulkConfig ==
    [frankfort_minimum |-> 5500, lexington_minimum |-> 6500,
     rate_per_mile |-> 265, allows_to_the_hole |-> TRUE,
     pricing_type |-> "standard"]

BulkPlusConfig ==
    [frankfort_minimum |-> 6500, lexington_minimum |-> 8000,
     rate_per_mile |-> 305, allows_to_the_hole |-> TRUE,
     pricing_type |-> "standard"]

\* The small tree with a minimum per origin, as the standard types have.
ChristmasTreeSmallConfig_OriginMinimums ==
    [minimum |-> 3500, frankfort_minimum |-> 3500, lexington_minimum |-> 3500,
     allows_to_the_hole |-> FALSE, pricing_type |-> "christmas_tree_small",
     rate_per_mile |-> 120, setup_fee |-> 1650]

ChristmasTreeSmallConfig ==
    [minimum |-> 3500, allows_to_the_hole |-> FALSE,
     pricing_type |-> "christmas_tree_small",
     rate_per_mile |-> 120, setup_fee |-> 1650]

ChristmasTreeLargeConfig ==
    [minimum |-> 5500, allows_to_the_hole |-> FALSE,
     pricing_type |-> "christmas_tree_large",
     first_20_miles_rate |-> 160, after_20_miles_rate |-> 75,
     setup_fee |-> 3050]

\* The two city prices the wrong way round.
SimpleConfig_Swapped ==
    [frankfort_price |-> 3000, lexington_price |-> 800,
     allows_to_the_hole |-> FALSE, pricing_type |-> "simple"]

SimpleConfig ==
    [frankfort_price |-> 800, lexington_price |-> 3000,
     allows_to_the_hole |-> FALSE, pricing_type |-> "simple"]

SmallTree == "Christmas Tree (7-8ft and smaller)"
LargeTree == "Christmas Tree (8-9ft and larger)"

DELIVERY_TYPES ==
    ("Single" :> SingleConfig) @@ ("Double" :> DoubleConfig) @@
    ("Bulk" :> BulkConfig) @@ ("Bulk Plus" :> BulkPlusConfig) @@
    (SmallTree :> ChristmasTreeSmallConfig) @@
    (LargeTree :> ChristmasTreeLargeConfig) @@
    ("Simple" :> SimpleConfig)

\* To-The-Hole add-on pricing, in cents
TO_THE_HOLE_FEE == 2000

get_delivery_type_names == DOMAIN DELIVERY_TYPES

\* The add-on permitted for every delivery type.
is_to_the_hole_allowed_Always(delivery_type) == TRUE

\* dict.get("allows_to_the_hole", False); an unknown delivery type is a KeyError,
\* which no caller of the model provokes.
is_to_the_hole_allowed(delivery_type) ==
    LET config == DELIVERY_TYPES[delivery_type] IN
    IF "allows_to_the_hole" \in DOMAIN config
    THEN config.allows_to_the_hole
    ELSE FALSE

-----------------------------------------------------------------------------
(* delivery_config.py: the price functions *)

\* What a Python call ends in: a returned value, or a raised exception.
Returned(v) == [ok |-> TRUE, value |-> v, error |-> "none"]
Raised(e) == [ok |-> FALSE, value |-> 0, error |-> e]

\* (miles x rate) + setup fee, floored at the minimum; in mills.
calculate_christmas_tree_small_price_NoFloor(roundtrip_mileage) ==
    LET config == DELIVERY_TYPES[SmallTree] IN
    IF roundtrip_mileage <= 0
    THEN Mills(config.minimum)
    ELSE roundtrip_mileage * config.rate_per_mile + Mills(config.setup_fee)

calculate_christmas_tree_small_price(roundtrip_mileage) ==
    LET config == DELIVERY_TYPES[SmallTree] IN
    IF roundtrip_mileage <= 0
    THEN Mills(config.minimum)
    ELSE LET price == roundtrip_mileage * config.rate_per_mile
                        + Mills(config.setup_fee)
         IN  Max(price, Mills(config.minimum))

\* Tiered: the first 20 miles (200 tenths) at one rate, the rest at another,
\* plus the setup fee, floored at the minimum; in mills.
calculate_christmas_tree_large_price(roundtrip_mileage) ==
    LET config == DELIVERY_TYPES[LargeTree] IN
    IF roundtrip_mileage <= 0
    THEN Mills(config.minimum)
    ELSE LET mileage_cost ==
                 IF roundtrip_mileage <= 200
                 THEN roundtrip_mileage * config.first_20_miles_rate
                 ELSE LET first_20_cost == 200 * config.first_20_miles_rate
                          remaining_miles == roundtrip_mileage - 200
                          remaining_cost ==
                              remaining_miles * config.after_20_miles_rate
                      IN  first_20_cost + remaining_cost
             price == mileage_cost + Mills(config.setup_fee)
         IN  Max(price, Mills(config.minimum))

\* Origin names a caller can pass, and str.lower() on them.
OriginNames == {"Frankfort", "Lexington", "FRANKFORT", "lexington", "Louisville"}

Lower(name) ==
    CASE name \in {"Frankfort", "FRANKFORT"} -> "frankfort"
      [] name \in {"Lexington", "lexington"} -> "lexington"
      [] name = "Louisville" -> "louisville"

\* f"{origin_name.lower()}_minimum"
MinimumKey(origin_name) == Lower(origin_name) \o "_minimum"

\* The Frankfort minimum whatever the origin.
calculate_standard_price_OneMinimum(roundtrip_mileage, delivery_type, origin_name) ==
    IF delivery_type \notin DOMAIN DELIVERY_TYPES THEN Raised("KeyError")
    ELSE LET config == DELIVERY_TYPES[delivery_type] IN
    IF "rate_per_mile" \notin DOMAIN config THEN Raised("KeyError")
    ELSE IF MinimumKey(origin_name) \notin DOMAIN config THEN Raised("KeyError")
    ELSE LET base_fee == config.rate_per_mile * roundtrip_mileage
             min_fee == Mills(config.frankfort_minimum)
         IN  Returned(Max(base_fee, min_fee))

\* The smaller of the two, where the code takes the larger.
calculate_standard_price_Min(roundtrip_mileage, delivery_type, origin_name) ==
    IF delivery_type \notin DOMAIN DELIVERY_TYPES THEN Raised("KeyError")
    ELSE LET config == DELIVERY_TYPES[delivery_type] IN
    IF "rate_per_mile" \notin DOMAIN config THEN Raised("KeyError")
    ELSE IF MinimumKey(origin_name) \notin DOMAIN config THEN Raised("KeyError")
    ELSE LET base_fee == config.rate_per_mile * roundtrip_mileage
             min_fee == Mills(config[MinimumKey(origin_name)])
         IN  Returned(IF base_fee <= min_fee THEN base_fee ELSE min_fee)

\* rate_per_mile * roundtrip_mileage or the origin's minimum, whichever is
\* higher; in mills, not rounded.  A missing dictionary key raises KeyError.
calculate_standard_price(roundtrip_mileage, delivery_type, origin_name) ==
    IF delivery_type \notin DOMAIN DELIVERY_TYPES THEN Raised("KeyError")
    ELSE LET config == DELIVERY_TYPES[delivery_type] IN
    IF "rate_per_mile" \notin DOMAIN config THEN Raised("KeyError")
    ELSE IF MinimumKey(origin_name) \notin DOMAIN config THEN Raised("KeyError")
    ELSE LET base_fee == config.rate_per_mile * roundtrip_mileage
             min_fee == Mills(config[MinimumKey(origin_name)])
         IN  Returned(Max(base_fee, min_fee))

-----------------------------------------------------------------------------
(* The quote operation that calls delivery_config.py.  Its code is not among *)
(* the repository's files; it is modelled from the specification, section   *)
(* 4.1, steps 1-4.  Fees it returns are in cents.                           *)

\* A destination is free text; the model keeps its words.
Destinations ==
    { <<>>,
      <<"Frankfort">>,
      <<"12", "Elm", "St", "Frankfort", "KY">>,
      <<"Lexington", "KY">>,
      <<"9", "Oak", "Ave", "Lexington">>,
      <<"Louisville", "KY">>,
      <<"Frankfort", "Rd", "Lexington">> }

\* "Frankfort" in destination
Contains(destination, city) ==
    \E i \in 1..Len(destination) : destination[i] = city

\* The Distance Lookup's answers: a one-way distance in tenths of a mile, or
\* a failure (no route, API error, quota).
LookupAnswers ==
    [status : {"OK"}, miles : 0..MaxOneWayTenths]
        \cup [status : {"ZERO_RESULTS", "EXCEPTION"}, miles : {0}]

\* Round to 2 decimal places, half up: mills -> cents (fees are never negative).
RoundHalfUp(mills) == (mills + 5) \div 10

QuoteResult(miles, fee) ==
    [ok |-> TRUE, value |-> fee, error |-> "none", roundTripMiles |-> miles]
QuoteError(e) ==
    [ok |-> FALSE, value |-> 0, error |-> e, roundTripMiles |-> 0]

\* The unrounded fee of a mileage-priced delivery type, in mills.
MileageFee(roundTripMiles, deliveryType, origin) ==
    CASE DELIVERY_TYPES[deliveryType].pricing_type = "christmas_tree_small" ->
            Returned(calculate_christmas_tree_small_price(roundTripMiles))
      [] DELIVERY_TYPES[deliveryType].pricing_type = "christmas_tree_large" ->
            Returned(calculate_christmas_tree_large_price(roundTripMiles))
      [] OTHER ->
            calculate_standard_price(roundTripMiles, deliveryType, origin)

computeQuote(origin, destination, deliveryType, addOn, lookup) ==
    IF destination = <<>> THEN QuoteError("empty destination")
    ELSE IF deliveryType \notin get_delivery_type_names
    THEN QuoteError("unknown delivery type")
    ELSE IF addOn /\ ~is_to_the_hole_allowed(deliveryType)
    THEN QuoteError("add-on not permitted")
    ELSE IF DELIVERY_TYPES[deliveryType].pricing_type = "simple"
    THEN IF Contains(destination, "Frankfort")
         THEN QuoteResult(0, DELIVERY_TYPES[deliveryType].frankfort_price)
         ELSE IF Contains(destination, "Lexington")
         THEN QuoteResult(0, DELIVERY_TYPES[deliveryType].lexington_price)
         ELSE QuoteError("address outside simple-delivery area")
    ELSE IF lookup.status # "OK" THEN QuoteError("cannot quote this address")
    ELSE LET roundTripMiles == 2 * lookup.miles
             fee == MileageFee(roundTripMiles, deliveryType, origin)
         IN  IF ~fee.ok THEN QuoteError(fee.error)
             ELSE QuoteResult(roundTripMiles,
                              RoundHalfUp(fee.value)
                                + (IF addOn THEN TO_THE_HOLE_FEE ELSE 0))

-----------------------------------------------------------------------------
(* app.py: input cleaning                                                   *)
(*                                                                         *)
(* A text is the sequence of its characters; the empty text is << >>.      *)

\* The characters re.sub(r'["\'\!\@\#\$\%\^\&\*\(\)]', '', ...) removes.
RemovedChars == {"\"", "'", "!", "@", "#", "$", "%", "^", "&", "*", "(", ")"}

Whitespace == {" "}

KeptChar(c) == c \notin RemovedChars

RECURSIVE StripLeft(_)
StripLeft(text) ==
    IF text # <<>> /\ Head(text) \in Whitespace
    THEN StripLeft(Tail(text))
    ELSE text

RECURSIVE StripRight(_)
StripRight(text) ==
    IF text # <<>> /\ text[Len(text)] \in Whitespace
    THEN StripRight(SubSeq(text, 1, Len(text) - 1))
    ELSE text

\* str.strip()
Strip(text) == StripRight(StripLeft(text))

\* The widgets hand over a str, never None: the first branch is not modelled.
clean_text_input(text_input) == Strip(SelectSeq(text_input, KeptChar))

\* The values that reach it come from number_input widgets and are numbers
\* already: float(value) leaves them as they are.
validate_numeric_input(value) == value

-----------------------------------------------------------------------------
(* app.py: plant size and mulch lookup tables.  Quantities are in quarters  *)
(* of a unit (0.25 = 1, 0.5 = 2, 1 = 4): the table's smallest step.         *)

Sizes ==
    {"1.25", "1.5", "1.75", "2", "5-6", "6-7", "Slender Upright",
     "1G", "2G", "3G", "5G", "7G", "10G", "15G", "30G"}

SizeRow(a, b, c, soil, tablets) ==
    [mulch |-> <<4 * a, 4 * b, 4 * c>>, soil |-> 4 * soil,
     tablets |-> 4 * tablets]

\* A row whose entries are given in quarters already.
QuarterRow(a, b, c, soil, tablets) ==
    [mulch |-> <<a, b, c>>, soil |-> soil, tablets |-> 4 * tablets]

size_data ==
    [size \in Sizes |->
        CASE size \in {"1.25", "1.5", "Slender Upright"} ->
                 QuarterRow(8, 8, 4, 2, 4)
          [] size \in {"1.75", "5-6"} -> SizeRow(3, 3, 2, 1, 5)
          [] size \in {"2", "6-7"} -> SizeRow(3, 3, 3, 2, 6)
          [] size \in {"1G", "2G"} -> QuarterRow(2, 2, 1, 1, 2)
          [] size = "3G" -> QuarterRow(2, 2, 1, 2, 3)
          [] size = "5G" -> QuarterRow(4, 4, 2, 2, 4)
          [] size = "7G" -> SizeRow(1, 1, 1, 1, 5)
          [] size = "10G" -> SizeRow(2, 2, 2, 1, 6)
          [] size = "15G" -> SizeRow(2, 2, 2, 2, 8)
          [] size = "30G" -> SizeRow(3, 3, 3, 3, 12)]

category_a ==
    {"Soil Conditioner Only", "Hardwood", "Eastern Red Cedar", "Pine Bark",
     "Pine Bark Mini Nuggets", "Pine Bark Nuggets"}
category_b == {"Grade A Cedar", "Redwood"}
category_c == {"Pine Straw"}

\* <<mulch, soil, tablets>> for one plant line, in quarters.
get_mulch_soil_tablet_quantities(plant_size, mulch_type, quantity) ==
    IF plant_size \notin DOMAIN size_data THEN <<0, 0, 0>>
    ELSE LET base_data == size_data[plant_size] IN
    IF mulch_type \notin category_a \cup category_b \cup category_c
    THEN <<0, 0, 0>>
    ELSE LET mulch_base ==
                 IF mulch_type \in category_a THEN base_data.mulch[1]
                 ELSE IF mulch_type \in category_b THEN base_data.mulch[2]
                 ELSE base_data.mulch[3]
         IN  <<mulch_base * quantity, base_data.soil * quantity,
               base_data.tablets * quantity>>

\* Rounding to the nearest whole unit, a half up, in place of math.ceil.
Ceil_HalfUp(quarters) == (quarters + 2) \div 4

\* math.ceil of a quantity held in quarters: whole units.
Ceil(quarters) == (quarters + 3) \div 4

-----------------------------------------------------------------------------
(* app.py: the Distance Lookup (Google Maps distance matrix)                *)

\* The distance text of an answer, "15.2 mi" or "1,234 mi": its digit groups
\* (a comma between them), the digit after the decimal point (-1: none) and
\* the unit.
DistanceText(groups, frac, unit) ==
    [groups |-> groups, frac |-> frac, unit |-> unit]

NoText == DistanceText(<<0>>, -1, "none")

\* What one call can meet: an answer with status OK and a distance text, an
\* answer with another status, an exception (network, quota, an element with
\* no distance), or no API key in the secrets.
DistanceMatrixAnswers ==
    { [status |-> "OK", text |-> DistanceText(<<15>>, 2, "mi")],
      [status |-> "OK", text |-> DistanceText(<<0>>, 3, "mi")],
      [status |-> "OK", text |-> DistanceText(<<1, 234>>, -1, "mi")],
      [status |-> "INVALID_REQUEST", text |-> NoText],
      [status |-> "EXCEPTION", text |-> NoText],
      [status |-> "NO_KEY", text |-> NoText] }

NotCalled == [status |-> "not called", text |-> NoText]

\* float(re.findall(r'\d+\.?\d*', distance_text)[0]), in tenths of a mile:
\* the first run of digits with the decimal part that follows it directly.
ParseDistance(text) ==
    IF Len(text.groups) = 1 /\ text.frac >= 0
    THEN text.groups[1] * 10 + text.frac
    ELSE text.groups[1] * 10

\* A lookup that hands back the round trip in place of the one-way distance.
calculate_driving_distance_Doubled(origin, destination, answer) ==
    IF answer.status = "OK" THEN 2 * ParseDistance(answer.text) ELSE 0

\* The one-way distance in tenths of a mile; 0 after an error message when
\* the lookup fails.
calculate_driving_distance(origin, destination, answer) ==
    IF answer.status = "OK" THEN ParseDistance(answer.text) ELSE 0


-----------------------------------------------------------------------------
(* app.py: pricing calculations                                             *)
(*                                                                         *)
(* Units of the money fields of pricing_data:                              *)
(*   cents    plant_material_total, installation_material_total,           *)
(*            delivery_cost and the *_price fields                         *)
(*   1/10^4 $ plant_material_discount_total, installation_cost,            *)
(*            final_subtotal                                               *)
(*   1/10^6 $ final_tax, final_total                                       *)
(* A plant's price and dollar discount are in cents, its percent discount  *)
(* in whole percents; delivery_mileage is in tenths of a mile.             *)

\* The sum of the values of a dict.
RECURSIVE Sum(_)
Sum(d) ==
    IF DOMAIN d = {} THEN 0
    ELSE LET k == CHOOSE x \in DOMAIN d : TRUE
         IN  d[k] + Sum([x \in DOMAIN d \ {k} |-> d[x]])

tablet_unit_price == 75
soil_conditioner_unit_price == 999
deer_guard_unit_price == 399
tree_stake_unit_price == 3600

mulch_unit_price(mulch_type) ==
    CASE mulch_type = "Soil Conditioner Only" -> 999
      [] mulch_type \in {"Hardwood", "Eastern Red Cedar", "Pine Bark",
                         "Pine Bark Mini Nuggets", "Pine Bark Nuggets"} -> 899
      [] mulch_type \in {"Grade A Cedar", "Redwood"} -> 1699
      [] mulch_type = "Pine Straw" -> 1599
      [] OTHER -> 899

mulch_sku(mulch_type) ==
    CASE mulch_type = "Soil Conditioner Only" -> "07SOILC02"
      [] mulch_type = "Hardwood" -> "7HARDRVM"
      [] mulch_type = "Eastern Red Cedar" -> "RVM CEDAR"
      [] mulch_type = "Pine Bark" -> "07PINEBM02"
      [] mulch_type = "Pine Bark Mini Nuggets" -> "07PINEBMN02"
      [] mulch_type = "Pine Bark Nuggets" -> "07PINEBN02"
      [] mulch_type = "Grade A Cedar" -> "CEDAR"
      [] mulch_type = "Redwood" -> "REDWOODM"
      [] mulch_type = "Pine Straw" -> "07PINESTRAW"
      [] OTHER -> "7HARDRVM"

\* One multiplier for every installation type.
install_multiplier_Flat(installation_type) == 97

\* The installation cost multiplier, in percent.
install_multiplier(installation_type) ==
    CASE installation_type = "Shrubs Only: 97%" -> 97
      [] installation_type = "1-3 trees: 97%" -> 97
      [] installation_type = "4-6 trees: 91%" -> 91
      [] installation_type = "7+ Trees: 85%" -> 85
      [] OTHER -> 97

origin_address(origin_location) ==
    IF origin_location = "Frankfort"
    THEN "3690 East West Connector, Frankfort KY 40601"
    ELSE "2700 Palumbo Drive Lexington KY 40509"

\* f"{street}, {city}, KY {zip}": the model keeps the three parts.
customer_address(installation_data) ==
    <<installation_data.customer_street_address,
      installation_data.customer_city, installation_data.customer_zip>>

\* The quantities of one plant line, <<mulch, soil, tablets>> in quarters.
PlantQuantities(plant, installation_data) ==
    get_mulch_soil_tablet_quantities(
        plant.size, installation_data.mulch_type,
        validate_numeric_input(plant.quantity))

\* `answer` is what the Distance Lookup call made by this computation meets.
calculate_pricing(plants_data, installation_data, answer) ==
    LET ids == DOMAIN plants_data
        quantity(id) == validate_numeric_input(plants_data[id].quantity)
        price(id) == validate_numeric_input(plants_data[id].price)
        discount_percent(id) ==
            validate_numeric_input(plants_data[id].discount_percent)
        discount_dollars(id) ==
            validate_numeric_input(plants_data[id].discount_dollars)
        plant_material_total ==
            Sum([id \in ids |-> price(id) * quantity(id)])
        \* price * (1 - discount_percent / 100) - discount_dollars
        discounted_price(id) ==
            price(id) * (100 - discount_percent(id)) - discount_dollars(id) * 100
        plant_material_discount_total ==
            Sum([id \in ids |-> discounted_price(id) * quantity(id)])
        qty(id) == PlantQuantities(plants_data[id], installation_data)
        total_mulch_quantity == Ceil(Sum([id \in ids |-> qty(id)[1]]))
        total_soil_quantity == Ceil(Sum([id \in ids |-> qty(id)[2]]))
        total_tablet_quantity == Ceil(Sum([id \in ids |-> qty(id)[3]]))
        mulch_type == installation_data.mulch_type
        tablet_total_price == total_tablet_quantity * tablet_unit_price
        mulch_total_price == total_mulch_quantity * mulch_unit_price(mulch_type)
        soil_conditioner_total_price ==
            total_soil_quantity * soil_conditioner_unit_price
        deer_guard_price ==
            validate_numeric_input(installation_data.deer_guards_quantity)
                * deer_guard_unit_price
        tree_stakes_price ==
            validate_numeric_input(installation_data.tree_stakes_quantity)
                * tree_stake_unit_price
        installation_material_total ==
            tablet_total_price + mulch_total_price
                + soil_conditioner_total_price + deer_guard_price
                + tree_stakes_price
        installation_cost ==
            (installation_material_total + plant_material_total)
                * install_multiplier(installation_data.installation_type)
        delivery_mileage ==
            calculate_driving_distance(
                origin_address(installation_data.origin_location),
                customer_address(installation_data), answer)
        \* 2.25 * 2 * delivery_mileage
        delivery_cost == (225 * 2 * delivery_mileage) \div 10
        final_subtotal ==
            plant_material_discount_total + installation_material_total * 100
                + installation_cost + delivery_cost * 100
        \* final_subtotal * 0.06
        final_tax == final_subtotal * 6
        final_total == final_subtotal * 100 + final_tax
    IN  [plant_material_total |-> plant_material_total,
         plant_material_discount_total |-> plant_material_discount_total,
         installation_material_total |-> installation_material_total,
         installation_cost |-> installation_cost,
         delivery_cost |-> delivery_cost,
         delivery_mileage |-> delivery_mileage,
         final_subtotal |-> final_subtotal,
         final_tax |-> final_tax,
         final_total |-> final_total,
         total_mulch_quantity |-> total_mulch_quantity,
         total_soil_quantity |-> total_soil_quantity,
         total_tablet_quantity |-> total_tablet_quantity,
         tablet_total_quantity |-> total_tablet_quantity,
         mulch_total_quantity |-> total_mulch_quantity,
         soil_conditioner_total_quantity |-> total_soil_quantity,
         tablet_total_price |-> tablet_total_price,
         mulch_total_price |-> mulch_total_price,
         soil_conditioner_total_price |-> soil_conditioner_total_price,
         deer_guard_price |-> deer_guard_price,
         tree_stakes_price |-> tree_stakes_price,
         mulch_sku |-> mulch_sku(mulch_type),
         mulch_type |-> mulch_type]


-----------------------------------------------------------------------------
(* app.py: the session state and one run of the script                      *)
(*                                                                         *)
(* st.session_state is a dict: a function from the keys it holds to their  *)
(* values.  Streamlit runs main() from the top on every click and on every *)
(* rerun; st.rerun() ends the run and starts the next one at once.          *)

EmptyDict == << >>

Has(d, key) == key \in DOMAIN d

\* d[key] = value
Put(d, key, value) ==
    [k \in DOMAIN d \cup {key} |-> IF k = key THEN value ELSE d[k]]

\* d.get(key, default)
Get(d, key, default) == IF Has(d, key) THEN d[key] ELSE default

\* if key not in d: d[key] = value
SetDefault(d, key, value) == IF Has(d, key) THEN d ELSE Put(d, key, value)

initialize_app(session) ==
    SetDefault(SetDefault(SetDefault(SetDefault(session,
        "phase", 1), "step", "A"), "plant_count", 1), "plants", EmptyDict)

\* A restart that deletes every key but 'plants'.
clear_all_data_KeepsPlants(session) ==
    initialize_app([k \in {"plants"} \cap DOMAIN session |-> session[k]])

\* Every key is deleted, then initialize_app() runs.
clear_all_data(session) == initialize_app(EmptyDict)

\* What a run leaves on the page: the view, the buttons offered, the quote
\* displayed (EmptyDict: none) and the messages shown.
Screen(view, buttons, quote, messages) ==
    [view |-> view, buttons |-> buttons, quote |-> quote,
     messages |-> messages]

\* f"{amount:.2f}": an amount held in units of 1/scale cent, to the nearest
\* cent (a tie, which the binary value rarely is, to the even cent).
Format2(amount, scale) ==
    LET q == amount \div scale
        r == amount % scale
    IN  IF 2 * r > scale \/ (2 * r = scale /\ q % 2 = 1) THEN q + 1 ELSE q

\* What one run of main() ends in: the session state, the page, whether
\* st.rerun() was called, the Distance Lookup answer it met (NotCalled: it
\* made no call) and the rows it appended to the dashboard sheet.
Outcome(session, page, rerun, answer, rows) ==
    [session_state |-> session, screen |-> page, rerun |-> rerun,
     answer |-> answer, rows |-> rows]

\* A run that ends in st.rerun() leaves no page of its own.
Rerun(session, answer) ==
    Outcome(session, Screen("rerun", {}, EmptyDict, {}), TRUE, answer, <<>>)

\* The dict saved for the current plant.
PlantEntry(plant) ==
    [quantity |-> plant.quantity, size |-> plant.size,
     plant_material |-> clean_text_input(plant.plant_material),
     price |-> plant.price, discount_percent |-> plant.discount_percent,
     discount_dollars |-> plant.discount_dollars]

\* Step A where "That's All" moves on without saving the current plant.
StepA_ThatsAllUnsaved(session, click, plant) ==
    LET current_plant == session.plant_count
        saved == Put(session, "plants",
                     Put(session.plants, current_plant, PlantEntry(plant)))
    IN  IF click = "Add Another Plant"
        THEN Rerun(Put(saved, "plant_count", session.plant_count + 1), NotCalled)
        ELSE IF click = "That's All"
        THEN Rerun(Put(session, "step", "B"), NotCalled)
        ELSE Outcome(session,
                     Screen("A", {"Add Another Plant", "That's All"},
                            EmptyDict, {}),
                     FALSE, NotCalled, <<>>)

StepA(session, click, plant) ==
    LET current_plant == session.plant_count
        saved == Put(session, "plants",
                     Put(session.plants, current_plant, PlantEntry(plant)))
    IN  IF click = "Add Another Plant"
        THEN Rerun(Put(saved, "plant_count", session.plant_count + 1), NotCalled)
        ELSE IF click = "That's All"
        THEN Rerun(Put(saved, "step", "B"), NotCalled)
        ELSE Outcome(session,
                     Screen("A", {"Add Another Plant", "That's All"},
                            EmptyDict, {}),
                     FALSE, NotCalled, <<>>)

\* installation_data.update({...}) on the dict the session holds, or on {}.
InstallationEntry(session, install) ==
    LET old == Get(session, "installation_data", EmptyDict)
        new == [origin_location |-> install.origin_location,
                mulch_type |-> install.mulch_type,
                tree_stakes_quantity |-> install.tree_stakes,
                deer_guards_quantity |-> install.deer_guards,
                installation_type |-> install.installation_type,
                customer_street_address |->
                    clean_text_input(install.street_address),
                customer_city |-> clean_text_input(install.city),
                customer_zip |-> install.zip_code]
    IN  [k \in DOMAIN old \cup DOMAIN new |->
            IF k \in DOMAIN new THEN new[k] ELSE old[k]]

\* Step B without the check of the address fields.
StepB_NoCheck(session, click, install) ==
    IF click = "Calculate Quote"
    THEN Rerun(Put(Put(session, "installation_data",
                       InstallationEntry(session, install)),
                   "step", "C"),
               NotCalled)
    ELSE Outcome(session, Screen("B", {"Calculate Quote"}, EmptyDict, {}),
                 FALSE, NotCalled, <<>>)

StepB(session, click, install) ==
    IF click = "Calculate Quote"
    THEN IF install.street_address # <<>> /\ install.city # <<>>
              /\ install.zip_code # <<>>
         THEN Rerun(Put(Put(session, "installation_data",
                            InstallationEntry(session, install)),
                        "step", "C"),
                    NotCalled)
         ELSE Outcome(session,
                      Screen("B", {"Calculate Quote"}, EmptyDict,
                             {"Please fill in all address fields"}),
                      FALSE, NotCalled, <<>>)
    ELSE Outcome(session, Screen("B", {"Calculate Quote"}, EmptyDict, {}),
                 FALSE, NotCalled, <<>>)

\* The st.error message of calculate_driving_distance for an answer.
DistanceMessages(answer) ==
    CASE answer.status = "OK" -> {}
      [] answer.status = "NO_KEY" ->
             {"Google Maps API key not found in secrets"}
      [] answer.status = "EXCEPTION" -> {"Error calculating distance"}
      [] OTHER -> {"Could not calculate distance"}

\* The rest of step C once the quote is computed and stored.
QuoteDisplay(priced, click, answer) ==
    IF priced.pricing_data # EmptyDict
    THEN IF click = "Move Forward with Quote"
         THEN Rerun(Put(priced, "phase", 2), answer)
         ELSE IF click = "No, Restart"
         THEN Rerun(clear_all_data(priced), answer)
         ELSE Outcome(priced,
                      Screen("C", {"Move Forward with Quote", "No, Restart"},
                             priced.pricing_data,
                             DistanceMessages(answer)
                                \cup {"Quote calculated successfully!"}),
                      FALSE, answer, <<>>)
    ELSE Outcome(priced, Screen("C", {}, EmptyDict, DistanceMessages(answer)),
                 FALSE, answer, <<>>)

\* Every run at step C computes the quote and stores it before anything else.
StepC(session, click, answer) ==
    QuoteDisplay(
        Put(session, "pricing_data",
            calculate_pricing(session.plants, session.installation_data, answer)),
        click, answer)

\* The dict saved by "Complete".
CustomerEntry(customer) ==
    [customer_name |-> clean_text_input(customer.customer_name),
     customer_email |-> customer.customer_email,
     customer_phone |-> customer.customer_phone,
     customer_subdivision |-> clean_text_input(customer.customer_subdivision),
     customer_cross_street |-> clean_text_input(customer.customer_cross_street),
     gate_response |-> customer.gate_response,
     gate_width |-> customer.gate_width,
     dogs_response |-> customer.dogs_response,
     install_location |-> clean_text_input(customer.install_location),
     utilities_check |-> customer.utilities_check,
     notes |-> clean_text_input(customer.notes),
     employee_initials |-> clean_text_input(customer.employee_initials)]

Phase2(session, click, customer) ==
    IF click = "Complete"
    THEN IF customer.customer_name # <<>> /\ customer.customer_email # <<>>
              /\ customer.customer_phone # <<>>
              /\ customer.customer_subdivision # <<>>
              /\ customer.customer_cross_street # <<>>
         THEN Rerun(Put(Put(session, "customer_data", CustomerEntry(customer)),
                        "phase", 3),
                    NotCalled)
         ELSE Outcome(session,
                      Screen("customer", {"Complete"}, EmptyDict,
                             {"Please fill in all required fields marked with *"}),
                      FALSE, NotCalled, <<>>)
    ELSE Outcome(session, Screen("customer", {"Complete"}, EmptyDict, {}),
                 FALSE, NotCalled, <<>>)

\* The PDF buffer: << >> for None (the template could not be filled), else
\* the one document, of which the model keeps the customer and the total.
generate_pdf(plants_data, installation_data, customer_data, pricing_data, pdf_ok) ==
    IF pdf_ok
    THEN << [customer_name |-> Get(customer_data, "customer_name", <<>>),
             total_price |-> Format2(Get(pricing_data, "final_total", 0), 10000)] >>
    ELSE << >>

\* The shareable link, or "" when the upload raises (a None buffer raises).
upload_pdf_to_drive(pdf_buffer, drive_ok) ==
    IF pdf_buffer # << >> /\ drive_ok THEN "https://drive.google.com/file/d/" ELSE ""

\* The columns of row_data that vary (the date of sale is left out).
RowData(cust, inst, pricing, pdf_link) ==
    [customer_name |-> Get(cust, "customer_name", <<>>),
     address |-> <<Get(inst, "customer_street_address", <<>>),
                   Get(inst, "customer_city", <<>>),
                   Get(inst, "customer_zip", <<>>)>>,
     phone |-> Get(cust, "customer_phone", <<>>),
     total_amount |-> Format2(Get(pricing, "final_total", 0), 10000),
     status |-> "Sold",
     pdf_link |-> pdf_link,
     customer_subdivision |-> Get(cust, "customer_subdivision", <<>>),
     customer_cross_street |-> Get(cust, "customer_cross_street", <<>>),
     install_location |-> Get(cust, "install_location", <<>>),
     employee_initials |-> Get(cust, "employee_initials", <<>>),
     origin_location |-> Get(inst, "origin_location", "")]

\* A send that gives up when the upload of the PDF fails.
SendRow_AbortsOnUploadFailure(session, cust, inst, pricing, pdf_link, append_ok, page_messages, buttons) ==
    LET messages ==
            page_messages
                \cup (IF pdf_link = "" THEN {"Error uploading PDF to Drive"} ELSE {})
    IN  IF ~append_ok
        THEN Outcome(session,
                     Screen("completed", buttons, EmptyDict,
                            messages \cup {"Failed to send to Google Sheet"}),
                     FALSE, NotCalled, <<>>)
        ELSE IF pdf_link = ""
        THEN Outcome(session, Screen("completed", buttons, EmptyDict, messages),
                     FALSE, NotCalled, <<>>)
        ELSE Outcome(session,
                     Screen("completed", buttons, EmptyDict,
                            messages \cup {"Install added to Dashboard"}),
                     FALSE, NotCalled,
                     <<RowData(cust, inst, pricing, pdf_link)>>)

\* The rest of the "Send to Google Sheet Dashboard" handler once the sheet
\* is open: the upload, then the append.
SendRow(session, cust, inst, pricing, pdf_link, append_ok, page_messages, buttons) ==
    LET messages ==
            page_messages
                \cup (IF pdf_link = "" THEN {"Error uploading PDF to Drive"} ELSE {})
    IN  IF ~append_ok
        THEN Outcome(session,
                     Screen("completed", buttons, EmptyDict,
                            messages \cup {"Failed to send to Google Sheet"}),
                     FALSE, NotCalled, <<>>)
        ELSE Outcome(session,
                     Screen("completed", buttons, EmptyDict,
                            messages \cup {"Install added to Dashboard"}),
                     FALSE, NotCalled,
                     <<RowData(cust, inst, pricing, pdf_link)>>)

\* The rest of phase 3 once the PDF is generated.
Completed(session, click, env, pdf_buffer) ==
    LET page_messages ==
            {"Your quote has been generated successfully!"}
                \cup (IF pdf_buffer = << >> THEN {"Error generating PDF"} ELSE {})
        buttons ==
            (IF pdf_buffer # << >> THEN {"Download PDF"} ELSE {})
                \cup {"Create a New Installation", "Send to Google Sheet Dashboard"}
        cust == Get(session, "customer_data", EmptyDict)
        inst == Get(session, "installation_data", EmptyDict)
        pricing == Get(session, "pricing_data", EmptyDict)
    IN  IF click = "Create a New Installation"
        THEN Rerun(clear_all_data(session), NotCalled)
        ELSE IF click = "Send to Google Sheet Dashboard"
        THEN IF cust = EmptyDict \/ inst = EmptyDict \/ pricing = EmptyDict
             THEN Outcome(session,
                          Screen("completed", buttons, EmptyDict,
                                 page_messages \cup {"Missing data"}),
                          FALSE, NotCalled, <<>>)
             ELSE IF ~env.sheet_ok
             THEN Outcome(session,
                          Screen("completed", buttons, EmptyDict,
                                 page_messages
                                    \cup {"Failed to send to Google Sheet"}),
                          FALSE, NotCalled, <<>>)
             ELSE SendRow(session, cust, inst, pricing,
                          upload_pdf_to_drive(pdf_buffer, env.drive_ok),
                          env.append_ok, page_messages, buttons)
        ELSE Outcome(session, Screen("completed", buttons, EmptyDict, page_messages),
                     FALSE, NotCalled, <<>>)

\* Every run in phase 3 generates the PDF before anything else.
Phase3(session, click, env) ==
    Completed(session, click, env,
              generate_pdf(session.plants, session.installation_data,
                           session.customer_data, session.pricing_data,
                           env.pdf_ok))

\* One run of the script.  click: the button pressed ("none": a plain
\* rerun); inputs: the widgets' values; env: what the outside answers.
Dispatch(session, click, inputs, env) ==
    IF session.phase = 1
    THEN IF session.step = "A" THEN StepA(session, click, inputs.plant)
         ELSE IF session.step = "B" THEN StepB(session, click, inputs.install)
         ELSE IF session.step = "C" THEN StepC(session, click, env.lookup)
         ELSE Outcome(session, Screen("blank", {}, EmptyDict, {}), FALSE,
                      NotCalled, <<>>)
    ELSE IF session.phase = 2 THEN Phase2(session, click, inputs.customer)
    ELSE IF session.phase = 3 THEN Phase3(session, click, env)
    ELSE Outcome(session, Screen("blank", {}, EmptyDict, {}), FALSE,
                 NotCalled, <<>>)

main(session_0, click, inputs, env) ==
    Dispatch(initialize_app(session_0), click, inputs, env)

\* The outcome of a run that called st.rerun() and of the run that followed.
Merged(first, second) ==
    Outcome(second.session_state, second.screen, FALSE,
            IF second.answer # NotCalled THEN second.answer ELSE first.answer,
            first.rows \o second.rows)

FollowRerun(first, inputs, env) ==
    IF first.rerun
    THEN Merged(first, main(first.session_state, "none", inputs, env))
    ELSE first

\* A click and the rerun it sets off: the run with the button pressed and,
\* when that run calls st.rerun(), the run that follows at once.
Handle(session, click, inputs, env) ==
    FollowRerun(main(session, click, inputs, env), inputs, env)

-----------------------------------------------------------------------------
(* Spec: the wizard.  Widget values and the outside's answers are drawn     *)
(* from small sets.                                                         *)

\* Most plants one installation holds.
MaxPlants == 2

\* Most rows sent to the dashboard for one installation.
MaxRows == 2

\* Values of the step A widgets: quantity >= 1, price and discounts >= 0.
PlantInputs ==
    { [quantity |-> 1, size |-> "1G", plant_material |-> <<"F", "i", "r">>,
       price |-> 999, discount_percent |-> 0, discount_dollars |-> 0],
      [quantity |-> 3, size |-> "2", plant_material |-> <<"O", "a", "k", "!", " ">>,
       price |-> 1250, discount_percent |-> 10, discount_dollars |-> 100],
      [quantity |-> 2, size |-> "3G", plant_material |-> <<>>,
       price |-> 0, discount_percent |-> 100, discount_dollars |-> 0] }

\* Values of the step B widgets.
InstallInputs ==
    { [origin_location |-> "Frankfort", mulch_type |-> "Hardwood",
       tree_stakes |-> 0, deer_guards |-> 0,
       installation_type |-> "Shrubs Only: 97%",
       street_address |-> <<"1", " ", "E", "l", "m">>,
       city |-> <<"F">>, zip_code |-> <<"4", "0">>],
      [origin_location |-> "Lexington", mulch_type |-> "Grade A Cedar",
       tree_stakes |-> 2, deer_guards |-> 1,
       installation_type |-> "4-6 trees: 91%",
       street_address |-> <<"!", "!">>,
       city |-> <<" ">>, zip_code |-> <<" ">>],
      [origin_location |-> "Lexington", mulch_type |-> "Pine Straw",
       tree_stakes |-> 1, deer_guards |-> 0,
       installation_type |-> "7+ Trees: 85%",
       street_address |-> <<"9", " ", "O", "'", "k">>,
       city |-> <<>>, zip_code |-> <<"4">>] }

\* Values of the phase 2 widgets.
CustomerInput(name, email, initials) ==
    [customer_name |-> name, customer_email |-> email,
     customer_phone |-> <<"5", "5", "5">>,
     customer_subdivision |-> <<"S">>, customer_cross_street |-> <<"X">>,
     gate_response |-> "Yes", gate_width |-> "No", dogs_response |-> "No",
     install_location |-> <<"b", "a", "c", "k">>, utilities_check |-> "Yes",
     notes |-> <<>>, employee_initials |-> initials]

CustomerInputs ==
    { CustomerInput(<<"A", "n", "n", " ", "L">>, <<"a", "@", "x">>, <<"C", "T">>),
      CustomerInput(<<"(", ")">>, <<"b", "@", "x">>, <<>>),
      CustomerInput(<<"B", "o">>, <<>>, <<"C", "T">>) }

Inputs(plant, install, customer) ==
    [plant |-> plant, install |-> install, customer |-> customer]

\* What the outside answers during one run: the Distance Lookup, and whether
\* the PDF template can be filled (pdf_ok), the sheet opened (sheet_ok), the
\* PDF uploaded (drive_ok) and the row appended (append_ok).
Env(lookup, pdf_ok, sheet_ok, drive_ok, append_ok) ==
    [lookup |-> lookup, pdf_ok |-> pdf_ok, sheet_ok |-> sheet_ok,
     drive_ok |-> drive_ok, append_ok |-> append_ok]

\* Widget values and answers of the outside that a run does not read.
Unread == Inputs(<<>>, <<>>, <<>>)
Unasked == Env(NotCalled, TRUE, TRUE, TRUE, TRUE)

\* A new browser session after its first run: initialize_app() and step A.
WizardStart ==
    /\ session_state = initialize_app(EmptyDict)
    /\ screen = Screen("A", {"Add Another Plant", "That's All"}, EmptyDict, {})
    /\ last_lookup = NotCalled
    /\ appended = <<>>

-----------------------------------------------------------------------------
(* PriceSpec: one call of a price function on inputs drawn from bounded sets *)

Mileages == (0 - MaxNegTenths)..MaxTenths

NoLookup == [status |-> "none", miles |-> 0]

Request(op, miles, delivery_type, origin, destination, add_on, lookup) ==
    [op |-> op, miles |-> miles, delivery_type |-> delivery_type,
     origin |-> origin, destination |-> destination, add_on |-> add_on,
     lookup |-> lookup]

NoRequest == Request("none", 0, "none", "none", <<>>, FALSE, NoLookup)
NoResult == [ok |-> FALSE, value |-> 0, error |-> "not called"]

PriceInit ==
    /\ request = NoRequest
    /\ result = NoResult
    /\ WizardStart

CallStandardPrice ==
    /\ request = NoRequest
    /\ \E miles \in Mileages,
          delivery_type \in get_delivery_type_names \cup {"Unknown"},
          origin \in OriginNames :
           /\ request' = Request("calculate_standard_price", miles,
                                 delivery_type, origin, <<>>, FALSE, NoLookup)
           /\ result' = calculate_standard_price(miles, delivery_type, origin)
    /\ UNCHANGED wizard_vars

CallChristmasTreeSmallPrice ==
    /\ request = NoRequest
    /\ \E miles \in Mileages :
           /\ request' = Request("calculate_christmas_tree_small_price", miles,
                                 SmallTree, "none", <<>>, FALSE, NoLookup)
           /\ result' = Returned(calculate_christmas_tree_small_price(miles))
    /\ UNCHANGED wizard_vars

CallChristmasTreeLargePrice ==
    /\ request = NoRequest
    /\ \E miles \in Mileages :
           /\ request' = Request("calculate_christmas_tree_large_price", miles,
                                 LargeTree, "none", <<>>, FALSE, NoLookup)
           /\ result' = Returned(calculate_christmas_tree_large_price(miles))
    /\ UNCHANGED wizard_vars

CallComputeQuote ==
    /\ request = NoRequest
    /\ \E origin \in {"Frankfort", "Lexington"},
          destination \in Destinations,
          deliveryType \in get_delivery_type_names,
          addOn \in BOOLEAN,
          lookup \in LookupAnswers :
           /\ request' = Request("computeQuote", 0, deliveryType, origin,
                                 destination, addOn, lookup)
           /\ result' = computeQuote(origin, destination, deliveryType, addOn,
                                     lookup)
    /\ UNCHANGED wizard_vars

PriceNext ==
    \/ CallStandardPrice
    \/ CallChristmasTreeSmallPrice
    \/ CallChristmasTreeLargePrice
    \/ CallComputeQuote

PriceSpec == PriceInit /\ [][PriceNext]_vars

-----------------------------------------------------------------------------
(* Spec: the wizard's clicks and reruns *)

Init ==
    /\ request = NoRequest
    /\ result = NoResult
    /\ WizardStart

\* The state a click, or a plain rerun, leads to.
Apply(outcome) ==
    /\ session_state' = outcome.session_state
    /\ screen' = outcome.screen
    /\ last_lookup' =
           IF outcome.answer = NotCalled THEN last_lookup ELSE outcome.answer
    /\ UNCHANGED price_vars

Click(button, inputs, env) ==
    /\ button \in screen.buttons
    /\ Apply(Handle(session_state, button, inputs, env))

ClickAddAnotherPlant ==
    /\ session_state.plant_count < MaxPlants
    /\ \E plant \in PlantInputs :
           Click("Add Another Plant", Inputs(plant, <<>>, <<>>), Unasked)
    /\ UNCHANGED appended

ClickThatsAll ==
    /\ \E plant \in PlantInputs :
           Click("That's All", Inputs(plant, <<>>, <<>>), Unasked)
    /\ UNCHANGED appended

\* The rerun that follows the click computes the quote.
ClickCalculateQuote ==
    /\ \E install \in InstallInputs, lookup \in DistanceMatrixAnswers :
           Click("Calculate Quote", Inputs(<<>>, install, <<>>),
                 Env(lookup, TRUE, TRUE, TRUE, TRUE))
    /\ UNCHANGED appended

\* The run the click starts computes the quote again before it reaches the
\* button.
ClickMoveForward ==
    /\ \E lookup \in DistanceMatrixAnswers :
           Click("Move Forward with Quote", Unread,
                 Env(lookup, TRUE, TRUE, TRUE, TRUE))
    /\ UNCHANGED appended

ClickNoRestart ==
    /\ \E lookup \in DistanceMatrixAnswers :
           Click("No, Restart", Unread, Env(lookup, TRUE, TRUE, TRUE, TRUE))
    /\ appended' = <<>>

\* The rerun that follows the click generates the PDF.
ClickComplete ==
    /\ \E customer \in CustomerInputs, pdf_ok \in BOOLEAN :
           Click("Complete", Inputs(<<>>, <<>>, customer),
                 Env(NotCalled, pdf_ok, TRUE, TRUE, TRUE))
    /\ UNCHANGED appended

ClickDownloadPdf ==
    /\ \E pdf_ok \in BOOLEAN :
           Click("Download PDF", Unread, Env(NotCalled, pdf_ok, TRUE, TRUE, TRUE))
    /\ UNCHANGED appended

ClickCreateNewInstallation ==
    /\ \E pdf_ok \in BOOLEAN :
           Click("Create a New Installation", Unread,
                 Env(NotCalled, pdf_ok, TRUE, TRUE, TRUE))
    /\ appended' = <<>>

Send(outcome) ==
    /\ "Send to Google Sheet Dashboard" \in screen.buttons
    /\ Apply(outcome)
    /\ appended' = appended \o outcome.rows

ClickSendToDashboard ==
    /\ Len(appended) < MaxRows
    /\ \E pdf_ok \in BOOLEAN, sheet_ok \in BOOLEAN, drive_ok \in BOOLEAN,
          append_ok \in BOOLEAN :
           Send(Handle(session_state, "Send to Google Sheet Dashboard", Unread,
                       Env(NotCalled, pdf_ok, sheet_ok, drive_ok, append_ok)))

\* A run with no button pressed: a widget was edited, or the page's Rerun
\* command was used.
ScriptRerun ==
    /\ \E lookup \in DistanceMatrixAnswers, pdf_ok \in BOOLEAN :
           Apply(Handle(session_state, "none", Unread,
                        Env(lookup, pdf_ok, TRUE, TRUE, TRUE)))
    /\ UNCHANGED appended

Next ==
    \/ ClickAddAnotherPlant
    \/ ClickThatsAll
    \/ ClickCalculateQuote
    \/ ClickMoveForward
    \/ ClickNoRestart
    \/ ClickComplete
    \/ ClickDownloadPdf
    \/ ClickCreateNewInstallation
    \/ ClickSendToDashboard
    \/ ScriptRerun

Spec == Init /\ [][Next]_vars

-----------------------------------------------------------------------------
(* PricingSpec: one call of calculate_pricing on inputs drawn from bounded  *)
(* sets                                                                     *)

\* Most plants in the plants_data of one call.
MaxPricedPlants == 2

\* Plant dicts as step A saves them.
PricedPlants ==
    { PlantEntry(plant) : plant \in PlantInputs }
        \cup { [quantity |-> 1, size |-> "1.5", plant_material |-> <<"E", "l", "m">>,
                price |-> 4500, discount_percent |-> 25, discount_dollars |-> 0],
               [quantity |-> 2, size |-> "30G", plant_material |-> <<"Y", "e", "w">>,
                price |-> 2000, discount_percent |-> 0, discount_dollars |-> 250] }

\* plants_data: a dict keyed 1..n.
PlantLists ==
    UNION { [1..n -> PricedPlants] : n \in 0..MaxPricedPlants }

\* installation_data as step B saves it; "" for an installation type that is
\* none of the four options.
InstallationDatas ==
    { [origin_location |-> origin, mulch_type |-> mulch,
       tree_stakes_quantity |-> extras[1], deer_guards_quantity |-> extras[2],
       installation_type |-> type,
       customer_street_address |-> <<"1", " ", "E", "l", "m">>,
       customer_city |-> <<"F">>, customer_zip |-> <<"4", "0">>] :
         origin \in {"Frankfort", "Lexington"},
         mulch \in {"Hardwood", "Redwood", "Pine Straw"},
         extras \in {<<0, 0>>, <<2, 1>>},
         type \in {"Shrubs Only: 97%", "1-3 trees: 97%", "4-6 trees: 91%",
                   "7+ Trees: 85%", ""} }

CallCalculatePricing ==
    /\ request = NoRequest
    /\ \E plants_data \in PlantLists,
          installation_data \in InstallationDatas,
          answer \in DistanceMatrixAnswers :
           /\ request' = [op |-> "calculate_pricing",
                          plants_data |-> plants_data,
                          installation_data |-> installation_data,
                          answer |-> answer]
           /\ result' = calculate_pricing(plants_data, installation_data, answer)
    /\ UNCHANGED wizard_vars

PricingNext == CallCalculatePricing

PricingSpec == PriceInit /\ [][PricingNext]_vars

-----------------------------------------------------------------------------
(* Claims about delivery_config.py, checked under PriceSpec *)

StandardTypes == {"Single", "Double", "Bulk", "Bulk Plus"}

\* The minimum the table configures for (delivery type, origin), in mills.
MinimumForOrigin(delivery_type, origin) ==
    IF origin = "Frankfort"
    THEN Mills(DELIVERY_TYPES[delivery_type].frankfort_minimum)
    ELSE Mills(DELIVERY_TYPES[delivery_type].lexington_minimum)

StandardCall ==
    /\ request.op = "calculate_standard_price"
    /\ request.delivery_type \in StandardTypes
    /\ request.origin \in {"Frankfort", "Lexington"}

\* C1: for every standard delivery type, origin (Frankfort, Lexington) and
\* round-trip mileage, zero and negative included, calculate_standard_price
\* returns a fee that is at least the minimum configured for that delivery
\* type and origin.
C1_FeeAtLeastMinimum ==
    StandardCall =>
        /\ result.ok
        /\ result.value >= MinimumForOrigin(request.delivery_type, request.origin)

\* A negative mileage priced at the Lexington minimum of Double.
C1_Witness ==
    /\ StandardCall
    /\ request.delivery_type = "Double" /\ request.origin = "Lexington"
    /\ request.miles < 0
    /\ result.ok /\ result.value = 70000

\* C2: calculate_standard_price returns exactly the larger of
\* roundTripMiles * perMileRate and the origin's minimum; Frankfort, Single,
\* 20 miles gives 45.00 and Lexington, Double, 80 miles gives 236.00.
C2_FeeIsMaxOfMileageAndMinimum ==
    StandardCall =>
        LET base == DELIVERY_TYPES[request.delivery_type].rate_per_mile
                        * request.miles
            minimum == MinimumForOrigin(request.delivery_type, request.origin)
        IN  /\ result.ok
            /\ result.value \in {base, minimum}
            /\ result.value >= base
            /\ result.value >= minimum
            /\ (request.delivery_type = "Single" /\ request.origin = "Frankfort"
                  /\ request.miles = 200) => result.value = 45000
            /\ (request.delivery_type = "Double" /\ request.origin = "Lexington"
                  /\ request.miles = 800) => result.value = 236000

\* The specification's second example: the mileage term is the larger one.
C2_Witness ==
    /\ StandardCall
    /\ request.delivery_type = "Double" /\ request.origin = "Lexington"
    /\ request.miles = 800
    /\ result.ok /\ result.value = 236000

\* C3 (the claim as stated; the code violates it): the large Christmas-tree
\* price is the first 20 miles at $1.30, the rest at $0.65, plus $58.50,
\* floored at $60: 10 miles 71.50, 20 miles 84.50, 40 miles 97.50.
C3_LargeTreeDocumentedPrice ==
    (request.op = "calculate_christmas_tree_large_price" /\ request.miles > 0) =>
        LET first == IF request.miles <= 200 THEN request.miles ELSE 200
            rest == request.miles - first
        IN  result.value = Max(first * 130 + rest * 65 + 58500, 60000)

\* C4 (the claim as stated; the code violates it): the small Christmas-tree
\* price is miles x $0.90 plus $25, floored at $35: 10 miles 35, 20 miles
\* 43.00, 40 miles 61.00.
C4_SmallTreeDocumentedPrice ==
    (request.op = "calculate_christmas_tree_small_price" /\ request.miles > 0) =>
        result.value = Max(request.miles * 90 + 25000, 35000)

ChristmasTreeCall ==
    request.op \in {"calculate_christmas_tree_small_price",
                    "calculate_christmas_tree_large_price"}

\* C5: for every round-trip mileage, each Christmas-tree price function
\* returns at least the 'minimum' configured for its own delivery type, and
\* exactly that minimum when the mileage is <= 0.
C5_TreePriceAtLeastOwnMinimum ==
    ChristmasTreeCall =>
        LET minimum == Mills(DELIVERY_TYPES[request.delivery_type].minimum)
        IN  /\ result.value >= minimum
            /\ request.miles <= 0 => result.value = minimum

\* 10 miles for a small tree: 12.00 + 16.50 is under the minimum, which binds.
C5_Witness ==
    /\ request.op = "calculate_christmas_tree_small_price"
    /\ request.miles = 100
    /\ result.value = 35000

QuoteCall == request.op = "computeQuote"

\* C6: a Simple quote is a fixed price decided by the city the destination
\* names (Frankfort 8.00, Lexington 30.00) whatever the Distance Lookup
\* answers, and a destination naming neither city fails.
C6_SimpleIsFixedByCity ==
    (QuoteCall /\ request.delivery_type = "Simple" /\ ~request.add_on) =>
        LET frankfort == Contains(request.destination, "Frankfort")
            lexington == Contains(request.destination, "Lexington")
        IN  /\ (frankfort /\ ~lexington) => (result.ok /\ result.value = 800)
            /\ (lexington /\ ~frankfort) => (result.ok /\ result.value = 3000)
            /\ (frankfort /\ lexington) =>
                   (result.ok /\ result.value \in {800, 3000})
            /\ (~frankfort /\ ~lexington) => ~result.ok

\* A Lexington destination priced at 30.00 although the Distance Lookup fails.
C6_Witness ==
    /\ QuoteCall /\ request.delivery_type = "Simple" /\ ~request.add_on
    /\ request.destination = <<"Lexington", "KY">>
    /\ request.lookup.status = "ZERO_RESULTS"
    /\ result.ok /\ result.value = 3000

\* The same quote request with the add-on flag the other way.
QuoteWithAddOn(flag) ==
    computeQuote(request.origin, request.destination, request.delivery_type,
                 flag, request.lookup)

\* C7: the flat To-The-Hole fee of 20.00 is added exactly once when the
\* add-on is requested and the delivery type permits it (Single, Double,
\* Bulk, Bulk Plus); it is never added otherwise, and requesting it for a
\* Christmas-tree or Simple delivery is a validation error.
C7_AddOnOnceWhenPermitted ==
    QuoteCall =>
        LET permitted == request.delivery_type \in StandardTypes
            with == QuoteWithAddOn(TRUE)
            without == QuoteWithAddOn(FALSE)
        IN  /\ permitted <=> is_to_the_hole_allowed(request.delivery_type)
            /\ (request.add_on /\ ~permitted) => ~result.ok
            /\ (request.add_on /\ ~permitted /\ request.destination # <<>>) =>
                   result.error = "add-on not permitted"
            /\ permitted =>
                   /\ with.ok <=> without.ok
                   /\ with.ok => with.value = without.value + 2000
                   /\ result = IF request.add_on THEN with ELSE without
            /\ (~request.add_on /\ permitted /\ result.ok
                    /\ request.lookup.miles = 0) =>
                   Mills(result.value)
                       = MinimumForOrigin(request.delivery_type, request.origin)

\* Bulk from Frankfort at zero miles with the add-on: 55.00 + 20.00.
C7_Witness ==
    /\ QuoteCall /\ request.add_on
    /\ request.delivery_type = "Bulk" /\ request.origin = "Frankfort"
    /\ request.lookup = [status |-> "OK", miles |-> 0]
    /\ result.ok /\ result.value = 7500

\* The wizard shows the quote page and the Distance Lookup of that run failed.
FailedLookupAtQuote ==
    /\ screen.view = "C"
    /\ last_lookup.status \in {"INVALID_REQUEST", "EXCEPTION", "NO_KEY"}

\* C8 (the claim as stated; the code violates it): when the Distance Lookup
\* of a quote attempt fails (non-OK status, exception or missing API key),
\* calculate_pricing returns no pricing result and the wizard neither
\* displays a total nor offers "Move Forward with Quote".
C8_FailedLookupProducesNoQuote ==
    FailedLookupAtQuote =>
        /\ session_state.pricing_data = EmptyDict
        /\ screen.quote = EmptyDict
        /\ "Move Forward with Quote" \notin screen.buttons

\* C9 (the claim as stated; the code violates it): whenever the Distance
\* Lookup of a quote attempt reports a one-way distance d, the
\* 'delivery_mileage' of the pricing result equals exactly 2 * d.
C9_MileageIsRoundTrip ==
    (screen.view = "C" /\ last_lookup.status = "OK") =>
        session_state.pricing_data.delivery_mileage
            = 2 * calculate_driving_distance(
                      origin_address(session_state.installation_data.origin_location),
                      customer_address(session_state.installation_data),
                      last_lookup)

\* C10 (the claim as stated; the code violates it): for every standard
\* delivery type, origin and round-trip mileage in tenths of a mile, the fee
\* calculate_standard_price returns is a whole number of cents.
C10_StandardFeeIsWholeCents ==
    StandardCall => (result.ok /\ result.value % 10 = 0)

\* C17: calculate_standard_price yields a price only for the four standard
\* delivery types combined with an origin named Frankfort or Lexington in
\* any letter case; for both Christmas-tree types, for Simple, for an unknown
\* delivery-type key and for any other origin name it raises and returns no
\* price.
C17_StandardPriceOnlyForStandardTypes ==
    request.op = "calculate_standard_price" =>
        /\ result.ok <=>
               /\ request.delivery_type \in StandardTypes
               /\ request.origin
                      \in {"Frankfort", "Lexington", "FRANKFORT", "lexington"}
        /\ request.delivery_type \in get_delivery_type_names \ StandardTypes
               => ~result.ok
        /\ ~result.ok => (result.error = "KeyError" /\ result.value = 0)

\* The small Christmas tree, which has a rate_per_mile but no minimum per
\* origin, asked from Frankfort.
C17_Witness ==
    /\ request.op = "calculate_standard_price"
    /\ request.delivery_type = SmallTree
    /\ request.origin = "Frankfort"
    /\ request.miles > 0
    /\ ~result.ok
    /\ result.error = "KeyError"

-----------------------------------------------------------------------------
(* Claims about calculate_pricing, checked under PricingSpec *)

PricingCall == request.op = "calculate_pricing"

\* The one-way distance the Distance Lookup of the call reported, in tenths
\* of a mile (0: it reported none).
ReportedTenths ==
    IF request.answer.status = "OK"
    THEN ParseDistance(request.answer.text)
    ELSE 0

\* C11: for every plant list, installation data and one-way distance d,
\* calculate_pricing returns delivery_cost = 2.25 * 2 * d, final_subtotal =
\* plant_material_discount_total + installation_material_total +
\* installation_cost + delivery_cost, final_tax = 6% of final_subtotal and
\* final_total = final_subtotal + final_tax.
C11_DeliveryCostSubtotalTaxTotal ==
    PricingCall =>
        \* cents = 2.25 * 2 * (tenths / 10) * 100
        /\ result.delivery_cost = 45 * ReportedTenths
        \* in 1/10^4 $
        /\ result.final_subtotal
               = result.plant_material_discount_total
                   + 100 * result.installation_material_total
                   + result.installation_cost
                   + 100 * result.delivery_cost
        \* in 1/10^6 $: 6/100 of (100 * final_subtotal)
        /\ result.final_tax = 6 * result.final_subtotal
        /\ result.final_total = 100 * result.final_subtotal + result.final_tax

\* 15.2 miles one way: a delivery cost of 68.40 inside a total above it.
C11_Witness ==
    /\ PricingCall
    /\ request.plants_data # <<>>
    /\ request.answer = [status |-> "OK", text |-> DistanceText(<<15>>, 2, "mi")]
    /\ result.delivery_cost = 6840
    /\ result.final_tax > 0
    /\ result.final_total > 100 * result.final_subtotal

\* The multiplier the installation types stand for, in percent.
DocumentedMultiplier(installation_type) ==
    CASE installation_type \in {"Shrubs Only: 97%", "1-3 trees: 97%"} -> 97
      [] installation_type = "4-6 trees: 91%" -> 91
      [] installation_type = "7+ Trees: 85%" -> 85
      [] OTHER -> 97

\* The sum of price * quantity over all plants, in cents.
PlantCost(plants_data) ==
    Sum([id \in DOMAIN plants_data |->
            plants_data[id].price * plants_data[id].quantity])

\* C12: installation_cost equals the installation-type multiplier (0.97 for
\* 'Shrubs Only' and '1-3 trees', 0.91 for '4-6 trees', 0.85 for '7+ Trees',
\* 0.97 for any other value, so always within 0.85..0.97) times
\* (installation_material_total + plant cost), the plant cost being the sum
\* of price * quantity over all plants, discounts left out.
C12_InstallationCostIsMultiplierTimesBase ==
    PricingCall =>
        LET multiplier ==
                DocumentedMultiplier(request.installation_data.installation_type)
        IN  /\ multiplier \in 85..97
            /\ result.installation_cost
                   = multiplier * (result.installation_material_total
                                     + PlantCost(request.plants_data))

\* A '7+ Trees' call with a discounted plant: the base is the undiscounted
\* plant cost.
C12_Witness ==
    /\ PricingCall
    /\ request.installation_data.installation_type = "7+ Trees: 85%"
    /\ result.plant_material_discount_total < 100 * result.plant_material_total
    /\ result.installation_cost
           = 85 * (result.installation_material_total
                     + result.plant_material_total)
    /\ result.installation_cost > 0

\* The table's <<mulch, soil, tablets>> for one plant of a size under a mulch
\* type, in quarters of a unit.
TableQuarters(size, mulch_type) ==
    <<IF mulch_type \in category_a THEN size_data[size].mulch[1]
      ELSE IF mulch_type \in category_b THEN size_data[size].mulch[2]
      ELSE size_data[size].mulch[3],
      size_data[size].soil, size_data[size].tablets>>

\* The exact sum over all plants of table value * quantity, in quarters.
ExactQuarters(plants_data, mulch_type, column) ==
    Sum([id \in DOMAIN plants_data |->
            TableQuarters(plants_data[id].size, mulch_type)[column]
                * plants_data[id].quantity])

\* plants_data with its plants in the opposite order.
Reversed(plants_data) ==
    [id \in DOMAIN plants_data |->
        plants_data[Cardinality(DOMAIN plants_data) + 1 - id]]

\* C13: each of the mulch, soil-conditioner and tablet totals T is the exact
\* sum S of the per-plant table quantities rounded up once: S <= T < S + 1,
\* whatever the number of plants, and the same for the plants in the
\* opposite order.
C13_QuantitiesRoundedUpOnce ==
    PricingCall =>
        LET totals == <<result.total_mulch_quantity, result.total_soil_quantity,
                        result.total_tablet_quantity>>
            mulch_type == request.installation_data.mulch_type
            swapped == calculate_pricing(Reversed(request.plants_data),
                                         request.installation_data,
                                         request.answer)
        IN  /\ \A column \in 1..3 :
                   LET S == ExactQuarters(request.plants_data, mulch_type, column)
                   IN  S <= 4 * totals[column] /\ 4 * totals[column] < S + 4
            /\ swapped.total_mulch_quantity = result.total_mulch_quantity
            /\ swapped.total_soil_quantity = result.total_soil_quantity
            /\ swapped.total_tablet_quantity = result.total_tablet_quantity

\* Two 1G plants under Hardwood: 0.5 + 0.5 of mulch is 1 (rounding each plant
\* would give 2) and 0.25 + 0.25 of soil conditioner rounds up to 1.
C13_Witness ==
    /\ PricingCall
    /\ Cardinality(DOMAIN request.plants_data) = 2
    /\ \A id \in DOMAIN request.plants_data :
           /\ request.plants_data[id].size = "1G"
           /\ request.plants_data[id].quantity = 1
    /\ request.installation_data.mulch_type = "Hardwood"
    /\ result.total_mulch_quantity = 1
    /\ result.total_soil_quantity = 1
    /\ result.total_tablet_quantity = 4

-----------------------------------------------------------------------------
(* Claims about the wizard of app.py, checked under Spec *)

\* The position of a session in the sequence (1,A), (1,B), (1,C), phase 2,
\* phase 3; 0 for any other (phase, step).
Position(session) ==
    IF session.phase = 1
    THEN CASE session.step = "A" -> 1
           [] session.step = "B" -> 2
           [] session.step = "C" -> 3
           [] OTHER -> 0
    ELSE IF session.phase = 2 THEN 4
    ELSE IF session.phase = 3 THEN 5
    ELSE 0

\* The check of the step at a position succeeded in this step of the wizard:
\* step A has none; step B: the three address fields typed were filled;
\* step C: a quote was produced and displayed; phase 2: the required customer
\* fields typed were filled.
StepCheckSucceeded(position) ==
    CASE position = 1 -> TRUE
      [] position = 2 ->
             \E install \in InstallInputs :
                 /\ install.street_address # <<>>
                 /\ install.city # <<>>
                 /\ install.zip_code # <<>>
                 /\ session_state'.installation_data
                        = InstallationEntry(session_state, install)
      [] position = 3 ->
             /\ screen.quote # EmptyDict
             /\ "Move Forward with Quote" \in screen.buttons
             /\ session_state'.pricing_data # EmptyDict
      [] position = 4 ->
             \E customer \in CustomerInputs :
                 /\ customer.customer_name # <<>>
                 /\ customer.customer_email # <<>>
                 /\ customer.customer_phone # <<>>
                 /\ customer.customer_subdivision # <<>>
                 /\ customer.customer_cross_street # <<>>
                 /\ session_state'.customer_data = CustomerEntry(customer)
      [] OTHER -> FALSE

LinearMove ==
    LET from == Position(session_state)
        to == Position(session_state')
    IN  /\ from \in 1..5
        /\ to \in 1..5
        /\ \/ to = from
           \/ to = from + 1 /\ StepCheckSucceeded(from)
           \/ to = 1 /\ from \in {3, 5}

\* C14: every step of a wizard session leaves the (phase, step) position
\* where it is, advances it by exactly one place along (1,A) -> (1,B) ->
\* (1,C) -> phase 2 -> phase 3 and then only when the current step's check
\* succeeds, or returns it to (1,A) by a restart from (1,C) or phase 3.
C14_PositionMovesLinearly == [][LinearMove]_vars

\* A session that walked the whole sequence with two plants.
C14_Witness ==
    /\ Position(session_state) = 5
    /\ session_state.plant_count = 2
    /\ Has(session_state, "installation_data")
    /\ Has(session_state, "pricing_data")
    /\ Has(session_state, "customer_data")

\* C15 (the claim as stated; the code violates it): once the wizard is at
\* the quote step the pricing computation is not performed again, so no
\* step taken there makes a further Distance Lookup call and the answer and
\* the quote of the session stay the ones of the first computation.
C15_PricingComputedOnce ==
    [][ (Position(session_state) = 3 /\ Position(session_state') \in {3, 4})
            => /\ last_lookup' = last_lookup
               /\ session_state'.pricing_data = session_state.pricing_data ]_vars

\* C16 (the claim as stated; the code violates it): whenever the wizard is
\* at the quote step, the street address, city and zip stored in
\* installation_data are all non-empty.
C16_StoredDestinationNonEmpty ==
    Position(session_state) = 3 =>
        /\ session_state.installation_data.customer_street_address # <<>>
        /\ session_state.installation_data.customer_city # <<>>
        /\ session_state.installation_data.customer_zip # <<>>

\* C18 (the claim as stated; the code violates it): when 'Move Forward with
\* Quote' takes the wizard to phase 2, the pricing_data the session carries
\* forward is the pricing_data that was displayed when the button was
\* clicked, whatever the Distance Lookup answers during the click's run.
C18_AcceptedQuoteIsCarriedForward ==
    [][ (Position(session_state) = 3 /\ Position(session_state') = 4)
            => session_state'.pricing_data = screen.quote ]_vars

\* The session a new browser session starts in.
InitialSession ==
    [phase |-> 1, step |-> "A", plant_count |-> 1, plants |-> EmptyDict]

\* A session that holds only some of the keys of another.
Restricted(session, keys) == [k \in keys |-> session[k]]

\* C19: from any reachable session state clear_all_data leaves exactly the
\* initial state (phase 1, step 'A', plant_count 1, plants {} and no other
\* key); and initialize_app, run on a session that holds any of these four
\* keys (all of them, or some after others were deleted), leaves every value
\* it finds unchanged and adds only the defaults of the missing ones.
C19_RestartResetsAndRerunKeeps ==
    /\ clear_all_data(session_state) = InitialSession
    /\ initialize_app(session_state) = session_state
    /\ \A keys \in SUBSET DOMAIN session_state :
           LET held == Restricted(session_state, keys)
               after == initialize_app(held)
           IN  /\ DOMAIN after = keys \cup DOMAIN InitialSession
               /\ \A k \in keys : after[k] = held[k]
               /\ \A k \in DOMAIN InitialSession \ keys :
                      after[k] = InitialSession[k]

\* A session restarted from the quote step: back at (1,A) with nothing kept,
\* after a Distance Lookup was made.
C19_Witness ==
    /\ session_state = InitialSession
    /\ last_lookup # NotCalled
    /\ screen.view = "A"

\* The keys of plants are 1..plant_count-1 at step A and 1..plant_count past
\* it, and every stored plant has a quantity of at least 1.
PlantKeysInStep ==
    /\ DOMAIN session_state.plants
           = IF Position(session_state) = 1
             THEN 1..(session_state.plant_count - 1)
             ELSE 1..session_state.plant_count
    /\ Position(session_state) > 1 => session_state.plants # EmptyDict
    /\ \A id \in DOMAIN session_state.plants :
           session_state.plants[id].quantity >= 1

\* Short of a restart, a step keeps every stored plant as it is.
PlantsKept ==
    Position(session_state') # 1 \/ Position(session_state) \notin {3, 5}
        => \A id \in DOMAIN session_state.plants :
               /\ id \in DOMAIN session_state'.plants
               /\ session_state'.plants[id] = session_state.plants[id]

\* C20: after any sequence of 'Add Another Plant' and 'That's All' clicks
\* and restarts, the keys of plants are exactly 1..plant_count-1 while at
\* step A and exactly 1..plant_count once past it, so the plant list priced
\* is never empty; no plant entry is overwritten or lost; and every stored
\* plant has quantity >= 1.
C20_PlantKeysFollowPlantCount ==
    []PlantKeysInStep /\ [][PlantsKept]_vars

\* Two plants stored and priced: the quote step with keys 1 and 2.
C20_Witness ==
    /\ Position(session_state) = 3
    /\ session_state.plant_count = 2
    /\ DOMAIN session_state.plants = {1, 2}
    /\ session_state.plants[1] # session_state.plants[2]
    /\ Has(session_state, "pricing_data")

\* What a step taken in phase 3 that stays in phase 3 does to the dashboard
\* sheet, told by the messages of the page it leaves.
SendOutcome ==
    LET failed == "Failed to send to Google Sheet" \in screen'.messages
        upload_failed == "Error uploading PDF to Drive" \in screen'.messages
        no_buffer == "Error generating PDF" \in screen'.messages
        added == "Install added to Dashboard" \in screen'.messages
        row == appended'[Len(appended')]
    IN  /\ session_state' = session_state
        \* the sheet could not be opened, or the append failed: no row
        /\ failed => appended' = appended
        \* the upload failed and the append did not: one row, no link
        /\ (upload_failed /\ ~failed) =>
               /\ added
               /\ Len(appended') = Len(appended) + 1
               /\ row.pdf_link = ""
        \* without a buffer the upload fails and the send goes on
        /\ (added /\ no_buffer) => upload_failed
        \* every send that goes through adds one row, after the rows there
        /\ added =>
               /\ appended' = Append(appended, row)
               /\ row = RowData(session_state.customer_data,
                                session_state.installation_data,
                                session_state.pricing_data, row.pdf_link)
               /\ (row.pdf_link = "" <=> upload_failed)
        /\ ~added => appended' = appended

\* C21: in phase 3, a 'Send to Google Sheet Dashboard' whose sheet cannot be
\* opened or whose append fails adds no row and leaves the wizard in phase 3
\* with its session data unchanged; a failed upload of the PDF (also when
\* there is no PDF buffer) does not abort the send: one row is appended with
\* an empty PDF link; and every send whose calls all succeed appends one
\* more row, a duplicate of an earlier one included.
C21_SendToDashboard ==
    [][ (Position(session_state) = 5 /\ Position(session_state') = 5)
            => SendOutcome ]_vars

\* The same quote sent twice: the first row without a PDF link after a
\* failed upload, the second with one.
C21_Witness ==
    /\ Position(session_state) = 5
    /\ Len(appended) = 2
    /\ appended[1].pdf_link = ""
    /\ appended[2].pdf_link # ""
    /\ appended[1].customer_name = appended[2].customer_name
    /\ appended[1].total_amount = appended[2].total_amount
    /\ "Install added to Dashboard" \in screen.messages

=============================================================================
